---------------------------- MODULE Spec2Model ----------------------------
(***************************************************************************)
(* Model of the YouTube analysis route handler (src/unnamed/part_000):     *)
(* the pure helpers extractVideoId, extractKeyTakeaways, extractTopics,    *)
(* generateFallbackAnalysis, and the POST handler as a state machine whose *)
(* steps are the pieces of code between two awaits.                        *)
(*                                                                         *)
(* JavaScript strings are TLA+ strings; TLC evaluates Len, Head, Tail,     *)
(* SubSeq and \o on them.  The module is ASCII, so the character U+2022    *)
(* (the bullet the scanners look for) is written "@"; no sample input uses *)
(* "@" for anything else.                                                  *)
(***************************************************************************)
EXTENDS Integers, Sequences, FiniteSets, TLC

VARIABLES
    \* ---- the POST handler -------------------------------------------
    env,          \* module-level SUPADATA_API_KEY / GROQ_API_KEY (lines 9-10)
    pc,           \* where the handler of the current request stands
    req,          \* the request: body parse outcome, videoUrl
    requestId,    \* line 192
    requestStartTime, \* line 191
    now,          \* the clock Date.now() reads
    videoId,      \* line 240
    metadata,     \* line 252
    transcript,   \* line 281
    textToAnalyze, \* line 300, the text sent to the LLM
    outcome,      \* what each provider answered (metadata, transcript, llm)
    calls,        \* the stages run and outbound calls issued, in order
    responses,    \* the responses sent for the request, in order
    \* ---- the heuristic scanners, applied on their own ----------------
    lines,        \* the lines the input text is made of
    takeaways,    \* result of extractKeyTakeaways, <<>> before the call
    topics,       \* result of extractTopics, <<>> before the call
    \* ---- extractVideoId, applied on its own --------------------------
    urlParts,     \* the URL as (shape prefix, ID segment, suffix)
    idResult      \* result of extractVideoId, Pending before the call

postVars == <<env, pc, req, requestId, requestStartTime, now, videoId,
              metadata, transcript, textToAnalyze, outcome, calls, responses>>
scanVars == <<lines, takeaways, topics>>
idVars   == <<urlParts, idResult>>
vars     == <<postVars, scanVars, idVars>>

----------------------------------------------------------------------------
(* JavaScript string primitives used by the helpers *)

BulletChar == "@"

\* s.charAt(i - 1): the empty string outside the string
CharAt(s, i) == IF i \in 1..Len(s) THEN SubSeq(s, i, i) ELSE ""

\* s.slice(from - 1, to), clamped to the string as JavaScript clamps it
Slice(s, from, to) ==
    LET a == IF from < 1 THEN 1 ELSE from
        b == IF to > Len(s) THEN Len(s) ELSE to
    IN  IF a > b THEN "" ELSE SubSeq(s, a, b)

UpperCaseLetters == "ABCDEFGHIJKLMNOPQRSTUVWXYZ"
LowerCaseLetters == "abcdefghijklmnopqrstuvwxyz"

\* The lower-case letter of each upper-case letter.
LowerCaseOf ==
    [c \in {CharAt(UpperCaseLetters, i) : i \in 1..Len(UpperCaseLetters)} |->
        CharAt(LowerCaseLetters,
               CHOOSE i \in 1..Len(UpperCaseLetters) : CharAt(UpperCaseLetters, i) = c)]

LowerChar(c) == IF c \in DOMAIN LowerCaseOf THEN LowerCaseOf[c] ELSE c

RECURSIVE toLowerCase(_)
toLowerCase(s) ==
    IF s = "" THEN "" ELSE LowerChar(Head(s)) \o toLowerCase(Tail(s))

includes(s, sub) ==
    \E i \in 1..(Len(s) - Len(sub) + 1) : SubSeq(s, i, i + Len(sub) - 1) = sub

startsWith(s, p) == Len(s) >= Len(p) /\ SubSeq(s, 1, Len(p)) = p

WhiteSpace == {" ", "\t", "\r", "\n", "\f"}
Digits     == {"0", "1", "2", "3", "4", "5", "6", "7", "8", "9"}

\* Length of the longest prefix of s made of characters of class (X* at ^).
SpanLen(s, class) ==
    CHOOSE n \in 0..Len(s) :
        /\ \A i \in 1..n : CharAt(s, i) \in class
        /\ n = Len(s) \/ CharAt(s, n + 1) \notin class

\* Length of the longest suffix of s made of characters of class.
SpanLenEnd(s, class) ==
    CHOOSE n \in 0..Len(s) :
        /\ \A i \in (Len(s) - n + 1)..Len(s) : CharAt(s, i) \in class
        /\ n = Len(s) \/ CharAt(s, Len(s) - n) \notin class

trim(s) ==
    LET a == SpanLen(s, WhiteSpace)
        t == SubSeq(s, a + 1, Len(s))
        b == SpanLenEnd(t, WhiteSpace)
    IN  SubSeq(t, 1, Len(t) - b)

\* 1 + s.search(/[class]/), or Len(s) + 1 when no character of s is in class
FirstIndexIn(s, class) ==
    CHOOSE i \in 1..(Len(s) + 1) :
        /\ i = Len(s) + 1 \/ CharAt(s, i) \in class
        /\ \A j \in 1..(i - 1) : CharAt(s, j) \notin class

\* text.split('\n')
RECURSIVE split(_)
split(text) ==
    IF FirstIndexIn(text, {"\n"}) > Len(text) THEN <<text>>
    ELSE <<SubSeq(text, 1, FirstIndexIn(text, {"\n"}) - 1)>>
         \o split(SubSeq(text, FirstIndexIn(text, {"\n"}) + 1, Len(text)))

\* /^\d+\./.test(line)
TestNumbered(line) ==
    LET n == SpanLen(line, Digits)
    IN  n >= 1 /\ Len(line) > n /\ CharAt(line, n + 1) = "."

\* line.startsWith('-') || line.startsWith(bullet) || /^\d+\./.test(line)
IsListLine(line) ==
    startsWith(line, "-") \/ startsWith(line, BulletChar) \/ TestNumbered(line)

\* line.replace(/^[-bullet\d\.]+\s*/, '').trim()
MarkerChars == {"-", BulletChar, "."} \cup Digits

StripMarker(line) ==
    LET n == SpanLen(line, MarkerChars)
    IN  IF n = 0 THEN trim(line)
        ELSE LET rest == SubSeq(line, n + 1, Len(line))
                 m    == SpanLen(rest, WhiteSpace)
             IN  trim(SubSeq(rest, m + 1, Len(rest)))

----------------------------------------------------------------------------
(* extractKeyTakeaways, lines 73-99 *)

TakeawayCap == 5

NoTakeaways == "No specific key takeaways identified"

IsTakeawayTrigger(line) ==
    includes(toLowerCase(line), "key takeaway") \/ includes(toLowerCase(line), "main point")

\* TakeawayCollects without the section flag: list lines are collected from
\* the first line on.
TakeawayCollectsAnywhere(inSection, line) ==
    trim(line) # "" /\ IsListLine(line)

\* The loop body's test at line 85.
TakeawayCollects(inSection, line) ==
    inSection /\ trim(line) # "" /\ IsListLine(line)

\* The for loop, lines 79-91: i is the line reached, inSection and acc the
\* loop's variables.  A trigger line `continue`s past the length check.
RECURSIVE TakeawaysLoop(_, _, _, _)
TakeawaysLoop(ls, i, inSection, acc) ==
    IF i > Len(ls) THEN acc
    ELSE IF IsTakeawayTrigger(ls[i]) THEN TakeawaysLoop(ls, i + 1, TRUE, acc)
    ELSE LET acc2 == IF TakeawayCollects(inSection, ls[i])
                     THEN Append(acc, StripMarker(ls[i]))
                     ELSE acc
         IN  IF Len(acc2) >= TakeawayCap THEN acc2
             ELSE TakeawaysLoop(ls, i + 1, inSection, acc2)

extractKeyTakeaways(text) ==
    LET found == TakeawaysLoop(split(text), 1, FALSE, <<>>)
    IN  IF Len(found) = 0 THEN <<NoTakeaways>> ELSE found

----------------------------------------------------------------------------
(* extractTopics, lines 102-135 *)

TopicCap == 5

PlaceholderTopic ==
    [title |-> "General Content", description |-> "The main content of the video"]

IsTopicTrigger(line) ==
    \/ includes(toLowerCase(line), "topic")
    \/ includes(toLowerCase(line), "theme")
    \/ includes(toLowerCase(line), "subject")

\* TopicCollects without the section flag.
TopicCollectsAnywhere(inSection, line) ==
    trim(line) # "" /\ IsListLine(line)

\* The loop body's test at line 114.
TopicCollects(inSection, line) ==
    inSection /\ trim(line) # "" /\ IsListLine(line)

\* Lines 115-119.
TopicOf(line) ==
    LET topicText == StripMarker(line)
    IN  [title |-> topicText, description |-> "Discussion about " \o topicText]

RECURSIVE TopicsLoop(_, _, _, _)
TopicsLoop(ls, i, inSection, acc) ==
    IF i > Len(ls) THEN acc
    ELSE IF IsTopicTrigger(ls[i]) THEN TopicsLoop(ls, i + 1, TRUE, acc)
    ELSE LET acc2 == IF TopicCollects(inSection, ls[i])
                     THEN Append(acc, TopicOf(ls[i]))
                     ELSE acc
         IN  IF Len(acc2) >= TopicCap THEN acc2
             ELSE TopicsLoop(ls, i + 1, inSection, acc2)

extractTopics(text) ==
    LET found == TopicsLoop(split(text), 1, FALSE, <<>>)
    IN  IF Len(found) = 0 THEN <<PlaceholderTopic>> ELSE found

----------------------------------------------------------------------------
(* JavaScript values *)

Undefined == "#undefined"
Null      == "#null"

\* !v for the string-or-absent values the handler tests
Falsy(v) == v \in {Undefined, Null, ""}

\* s.substring(a, b)
substring(s, a, b) == SubSeq(s, a + 1, IF b < Len(s) THEN b ELSE Len(s))

\* metadata?.field || dflt, for a string field
OrDefault(m, field, dflt) ==
    IF field \in DOMAIN m /\ ~ Falsy(m[field]) THEN m[field] ELSE dflt

\* metadata?.field || dflt, for a numeric field
NumOrDefault(m, field, dflt) ==
    IF field \in DOMAIN m /\ m[field] # 0 THEN m[field] ELSE dflt

----------------------------------------------------------------------------
(* extractVideoId, lines 23-44 *)

IdLength == 11

WordChars ==
    {CharAt(UpperCaseLetters, i) : i \in 1..Len(UpperCaseLetters)}
    \cup {CharAt(LowerCaseLetters, i) : i \in 1..Len(LowerCaseLetters)}
    \cup Digits \cup {"_"}

LineTerminators == {"\n", "\r"}

\* Whether the literal lit stands at offset p (0-based) of url.
LitAt(url, p, lit) == Slice(url, p + 1, p + Len(lit)) = lit

\* Length matched at offset p (0-based) by the alternation
\* (youtu.be\/)|(v\/)|(\/u\/\w\/)|(embed\/)|(watch\?), 0 when none matches.
\* The alternatives start with different characters, so at most one matches.
AltLenAt(url, p) ==
    IF /\ LitAt(url, p, "youtu")
       /\ CharAt(url, p + 6) \notin LineTerminators \cup {""}
       /\ LitAt(url, p + 6, "be/")
    THEN 9
    ELSE IF LitAt(url, p, "v/") THEN 2
    ELSE IF /\ LitAt(url, p, "/u/")
            /\ CharAt(url, p + 4) \in WordChars
            /\ CharAt(url, p + 5) = "/"
    THEN 5
    ELSE IF LitAt(url, p, "embed/") THEN 6
    ELSE IF LitAt(url, p, "watch?") THEN 6
    ELSE 0

\* The offsets where ^.* can stop: . does not match a line terminator, so
\* they lie in the first line; an alternative must match there.
AltOffsets(url) ==
    {p \in 0..(FirstIndexIn(url, LineTerminators) - 1) : AltLenAt(url, p) > 0}

\* ^.* is greedy: the alternation is taken at the rightmost such offset.
\* The offset just after the alternative.
AltEnd(url) ==
    CHOOSE q \in {p + AltLenAt(url, p) : p \in AltOffsets(url)} :
        \A p \in AltOffsets(url) : p < q

\* An optional character c (\??, v?, =?) at offset q: taken when it is there.
SkipOptional(url, q, c) == IF CharAt(url, q + 1) = c THEN q + 1 ELSE q

\* ([^#&?]*) at offset q: the longest run without '#', '&' or '?'.
GroupAt(url, q) ==
    CHOOSE g \in {Slice(url, q + 1, q + n) : n \in 0..(Len(url) - q)} :
        /\ \A k \in 1..Len(g) : CharAt(g, k) \notin {"#", "&", "?"}
        /\ CharAt(url, q + Len(g) + 1) \in {"#", "&", "?", ""}

\* url.match(regExp)[7], or Null when the expression does not match: the
\* alternation, then \??, v? and =?, then the group.
MatchGroup7(url) ==
    IF AltOffsets(url) = {} THEN Null
    ELSE CHOOSE g \in
           {GroupAt(url, q3) : q3 \in
             {SkipOptional(url, q2, "=") : q2 \in
               {SkipOptional(url, q1, "v") : q1 \in
                 {SkipOptional(url, q0, "?") : q0 \in {AltEnd(url)}}}}} : TRUE

extractVideoId(url) ==
    IF Falsy(url) THEN Null
    ELSE LET g == MatchGroup7(url)
         IN  IF g \notin {Null, ""} /\ Len(g) = IdLength THEN g ELSE Null

----------------------------------------------------------------------------
(* generateFallbackAnalysis, lines 138-161 *)

generateFallbackAnalysis(title) ==
    [framework |->
        [title |-> "Framework for " \o title,
         components |->
            <<[heading |-> "Summary",
               description |-> "A summary of the video could not be generated automatically."]>>],
     summary |-> "Unable to generate a summary for this video.",
     keyTakeaways |-> <<"Automatic key takeaways could not be generated.",
                        "Please watch the video for the main points.">>,
     topics |-> <<[title |-> "Video Content",
                   description |-> "The main content of the video."]>>]

----------------------------------------------------------------------------
(* getYoutubeMetadata, lines 47-70 *)

NullMetadata == [isNull |-> TRUE]

\* getYoutubeMetadata without the response.ok test of line 58: the body of
\* an error answer is taken for the metadata.
getYoutubeMetadataNoStatusTest(o) ==
    IF o.kind = "status" THEN [title |-> "Not Found"]
    ELSE IF o.kind = "ok" /\ ~ ("isNull" \in DOMAIN o.body) THEN o.body
    ELSE NullMetadata

\* What getYoutubeMetadata returns once the oEmbed fetch has answered with
\* outcome o: every failure is caught at line 66 or returns null at line 60.
\* A JSON body that is null makes metadata.title throw at line 64, inside
\* the try.
getYoutubeMetadata(o) ==
    IF o.kind = "ok" /\ ~ ("isNull" \in DOMAIN o.body) THEN o.body ELSE NullMetadata

----------------------------------------------------------------------------
(* POST, lines 190-415: the pieces of the handler *)

TruncateAt == 15000
SummaryLen == 500

NoResponse == <<>>

\* Lines 403-413: the catch-all.
ServerErrorResponse(message, rid, elapsed, nodeEnv) ==
    [status |-> 500,
     body |-> IF nodeEnv = "development"
              THEN [success |-> FALSE, requestId |-> rid, processingTime |-> elapsed,
                    error |-> "Server error: " \o message, stack |-> "Error: " \o message]
              ELSE [success |-> FALSE, requestId |-> rid, processingTime |-> elapsed,
                    error |-> "Server error: " \o message]]

\* Lines 203-206.
MissingUrlResponse ==
    [status |-> 400,
     body |-> [success |-> FALSE, error |-> "Missing videoUrl parameter in request body"]]

\* Lines 214-218.
MissingSupadataResponse ==
    [status |-> 500,
     body |-> [success |-> FALSE,
               error |-> "Server configuration error: Missing Supadata API key",
               troubleshooting |-> "Add SUPADATA_API_KEY to your environment variables"]]

\* Lines 223-227.
MissingGroqResponse ==
    [status |-> 500,
     body |-> [success |-> FALSE,
               error |-> "Server configuration error: Missing Groq API key",
               troubleshooting |-> "Add GROQ_API_KEY to your environment variables"]]

\* Lines 243-246.
InvalidUrlResponse ==
    [status |-> 400,
     body |-> [success |-> FALSE, error |-> "Invalid YouTube URL. Could not extract video ID."]]

\* Validate with the configuration tests moved after the ID extraction.
ValidateKeysLate(r, e) ==
    IF r.body # "object" THEN "throws"
    ELSE IF Falsy(r.videoUrl) THEN "missingUrl"
    ELSE IF Falsy(extractVideoId(r.videoUrl)) THEN "invalidUrl"
    ELSE IF Falsy(e.SUPADATA_API_KEY) THEN "missingSupadata"
    ELSE IF Falsy(e.GROQ_API_KEY) THEN "missingGroq"
    ELSE "proceed"

\* Lines 198-247: which return, if any, ends the handler before the first
\* outbound call.  A body that does not parse, or parses to null, throws at
\* line 198 or 199.
Validate(r, e) ==
    IF r.body # "object" THEN "throws"
    ELSE IF Falsy(r.videoUrl) THEN "missingUrl"
    ELSE IF Falsy(e.SUPADATA_API_KEY) THEN "missingSupadata"
    ELSE IF Falsy(e.GROQ_API_KEY) THEN "missingGroq"
    ELSE IF Falsy(extractVideoId(r.videoUrl)) THEN "invalidUrl"
    ELSE "proceed"

BodyErrorMessage(r) ==
    IF r.body = "malformed" THEN "Unexpected token in JSON"
    ELSE "Cannot destructure property 'videoUrl' of 'body' as it is null."

\* Lines 284-292 and 380-386: the video info with its defaults.
DefaultTitle(id) == "Video " \o id
DefaultThumbnail(id) == "https://img.youtube.com/vi/" \o id \o "/hqdefault.jpg"

VideoInfoFull(m, id, url) ==
    [title        |-> OrDefault(m, "title", DefaultTitle(id)),
     author       |-> OrDefault(m, "author_name", "Unknown"),
     lengthSeconds |-> NumOrDefault(m, "length_seconds", 0),
     thumbnailUrl |-> OrDefault(m, "thumbnail_url", DefaultThumbnail(id)),
     description  |-> OrDefault(m, "description", ""),
     videoId      |-> id,
     videoUrl     |-> url]

VideoInfoFallback(m, id, url) ==
    [title        |-> OrDefault(m, "title", DefaultTitle(id)),
     author       |-> OrDefault(m, "author_name", "Unknown"),
     thumbnailUrl |-> OrDefault(m, "thumbnail_url", DefaultThumbnail(id)),
     videoId      |-> id,
     videoUrl     |-> url]

\* Lines 260-278: the message of the error the transcript fetch with outcome
\* o throws, or Null when it throws nothing.
TranscriptError(o) ==
    IF o.kind = "networkError" THEN "fetch failed"
    ELSE IF o.kind = "status" THEN "Supadata API returned status: " \o ToString(o.status)
    ELSE IF o.kind = "badJson" THEN "Unexpected end of JSON input"
    ELSE IF ~ ("success" \in DOMAIN o.body /\ o.body.success)
         THEN OrDefault(o.body, "message", "Unknown error from Supadata API")
    ELSE IF ~ ("data" \in DOMAIN o.body)
         THEN "Cannot read properties of undefined (reading 'text')"
    ELSE IF ~ ("text" \in DOMAIN o.body.data)
         THEN "Cannot read properties of undefined (reading 'length')"
    ELSE Null

\* Lines 281-293.
BuildTranscript(o, m, id, url) ==
    [content   |-> o.body.data.text,
     segments  |-> IF "segments" \in DOMAIN o.body.data THEN o.body.data.segments ELSE <<>>,
     videoInfo |-> VideoInfoFull(m, id, url)]

\* Lines 300-302.
TextToAnalyze(content) ==
    IF Len(content) > TruncateAt
    THEN substring(content, 0, TruncateAt) \o "..."
    ELSE content

\* FallbackTranscript without the error descriptor of lines 387-390.
FallbackTranscriptNoError(message, m, id, url) ==
    [content   |-> "Could not fetch transcript for video " \o id,
     segments  |-> <<>>,
     videoInfo |-> VideoInfoFallback(m, id, url)]

\* Lines 377-391.
FallbackTranscript(message, m, id, url) ==
    [content   |-> "Could not fetch transcript for video " \o id,
     segments  |-> <<>>,
     videoInfo |-> VideoInfoFallback(m, id, url),
     error     |-> [message |-> message, code |-> "TRANSCRIPT_FETCH_ERROR"]]

\* Lines 393-400.
TranscriptFailureResponse(message, m, id, url) ==
    [status |-> 200,
     body |-> [success |-> FALSE,
               error |-> "Failed to fetch transcript: " \o message,
               data |-> [transcript |-> FallbackTranscript(message, m, id, url),
                         analysis |-> generateFallbackAnalysis(
                                          OrDefault(m, "title", DefaultTitle(id)))]]]

\* Lines 305-322: the message of the error the LLM call with outcome o
\* throws inside the inner try, or Null.  A completion without a choices
\* array throws at line 322.
GroqError(o) ==
    IF o.kind = "throws" THEN o.message
    ELSE IF ~ ("choices" \in DOMAIN o)
         THEN "Cannot read properties of undefined (reading '0')"
    ELSE Null

\* Line 322: completion.choices[0]?.message?.content || ""
AnalysisText(o) ==
    IF Len(o.choices) = 0 THEN ""
    ELSE OrDefault(o.choices[1], "content", "")

\* Lines 325-338.
BuildAnalysis(analysisText, m, id) ==
    [framework |->
        [title |-> OrDefault(m, "title", "Framework for " \o id),
         components |-> <<[heading |-> "Summary",
                           description |-> substring(analysisText, 0, SummaryLen)]>>],
     summary |-> substring(analysisText, 0, SummaryLen),
     keyTakeaways |-> extractKeyTakeaways(analysisText),
     topics |-> extractTopics(analysisText)]

\* Lines 346-354.
SuccessResponse(rid, elapsed, tr, analysis) ==
    [status |-> 200,
     body |-> [success |-> TRUE, requestId |-> rid, processingTime |-> elapsed,
               data |-> [transcript |-> tr, analysis |-> analysis]]]

\* PartialResponse as it would be without the inner try of line 298: the
\* LLM error reaches the catch of line 373.
PartialResponseOuterCatch(message, tr, m, id) ==
    TranscriptFailureResponse(message, m, id, tr.videoInfo.videoUrl)

\* Lines 356-370.
PartialResponse(message, tr, m, id) ==
    [status |-> 200,
     body |-> [success |-> TRUE, partial |-> TRUE,
               error |-> [analysis |-> "Error generating analysis: " \o message],
               data |-> [transcript |-> tr,
                         analysis |-> generateFallbackAnalysis(
                                          OrDefault(m, "title", DefaultTitle(id)))]]]

----------------------------------------------------------------------------
(* What the environment can hand to the handler *)

MaxClock == 2

KeyValues == {Undefined, "", "sk-live"}

Environments ==
    [SUPADATA_API_KEY : KeyValues, GROQ_API_KEY : KeyValues,
     NODE_ENV : {"development", "production"}]

PostUrls ==
    {"https://www.youtube.com/watch?v=dQw4w9WgXcQ&t=42s",
     "https://youtu.be/-_w4w9WgXcv",
     "https://youtu.be/tooShort",
     "https://example.com/video.mp4"}

Requests ==
    {[body |-> "malformed", videoUrl |-> Undefined],
     [body |-> "null", videoUrl |-> Undefined]}
    \cup {[body |-> "object", videoUrl |-> u] : u \in {Undefined, ""} \cup PostUrls}

RequestIds == {"k3x9q2ab", "z81mm0pq"}

MetadataOutcomes ==
    {[kind |-> "networkError"],
     [kind |-> "status", status |-> 404],
     [kind |-> "badJson"],
     [kind |-> "ok", body |-> NullMetadata],
     [kind |-> "ok", body |-> [title |-> "", author_name |-> "Rick Astley"]],
     [kind |-> "ok", body |-> [title |-> "Never Gonna Give You Up",
                               author_name |-> "Rick Astley",
                               thumbnail_url |-> "https://i.ytimg.com/vi/x/hq.jpg"]]}

TranscriptOutcomes ==
    {[kind |-> "networkError"],
     [kind |-> "status", status |-> 500],
     [kind |-> "status", status |-> 404],
     [kind |-> "badJson"],
     [kind |-> "body", body |-> [success |-> FALSE, message |-> "Video unavailable"]],
     [kind |-> "body", body |-> [success |-> FALSE]],
     [kind |-> "body", body |-> [success |-> TRUE]],
     [kind |-> "body", body |-> [success |-> TRUE,
                                 data |-> [text |-> "We ship early and test often."]]],
     [kind |-> "body", body |-> [success |-> TRUE,
                                 data |-> [text |-> "Plan. Build. Ship.",
                                           segments |-> <<[text |-> "Plan.", offset |-> 0],
                                                          [text |-> "Build. Ship.", offset |-> 900]>>]]]}

LLMOutcomes ==
    {[kind |-> "throws", message |-> "429 rate limit exceeded"],
     [kind |-> "completion"],
     [kind |-> "completion", choices |-> <<>>],
     [kind |-> "completion", choices |-> <<[content |-> "The video is about shipping."]>>],
     [kind |-> "completion",
      choices |-> <<[content |-> "Key Takeaways:\n- Ship early\n@ Test often\n\nTopics:\n1. Delivery"]>>]}

Pending == [kind |-> "pending"]

----------------------------------------------------------------------------
(* POST as a state machine: one action per piece of code between awaits *)

InFlight == pc \in {"AwaitBody", "AwaitMetadata", "AwaitTranscript", "AwaitLLM"}

Elapsed == now - requestStartTime

Send(resp) ==
    /\ responses' = Append(responses, resp)
    /\ pc' = "ResponseSent"

\* Lines 191-198: the handler starts and awaits the body.
ReceiveRequest(r, rid) ==
    /\ pc = "Idle"
    /\ req' = r
    /\ requestId' = rid
    /\ requestStartTime' = now
    /\ pc' = "AwaitBody"
    /\ UNCHANGED <<env, now, videoId, metadata, transcript, textToAnalyze,
                   outcome, calls, responses>>
    /\ UNCHANGED <<scanVars, idVars>>

\* Date.now() moves on while the handler awaits.
Tick ==
    /\ pc = "Idle" \/ InFlight
    /\ now < MaxClock
    /\ now' = now + 1
    /\ UNCHANGED <<env, pc, req, requestId, requestStartTime, videoId, metadata,
                   transcript, textToAnalyze, outcome, calls, responses>>
    /\ UNCHANGED <<scanVars, idVars>>

\* Lines 198-252 and 47-56: the body resolves or rejects; validation; ID
\* extraction; the oEmbed fetch is issued.  getYoutubeMetadata extracts the
\* ID again (line 49) from the same URL, so its `return null` at line 52 is
\* not taken.
BodyParsed ==
    /\ pc = "AwaitBody"
    /\ \E v \in {Validate(req, env)} :
           IF v = "proceed"
           THEN /\ videoId' = extractVideoId(req.videoUrl)
                /\ calls' = calls \o <<"extractVideoId", "extractVideoId", "metadata.fetch">>
                /\ pc' = "AwaitMetadata"
                /\ UNCHANGED responses
           ELSE /\ Send(CASE v = "throws" ->
                               ServerErrorResponse(BodyErrorMessage(req), requestId,
                                                   Elapsed, env.NODE_ENV)
                          [] v = "missingUrl" -> MissingUrlResponse
                          [] v = "missingSupadata" -> MissingSupadataResponse
                          [] v = "missingGroq" -> MissingGroqResponse
                          [] v = "invalidUrl" -> InvalidUrlResponse)
                /\ calls' = IF v = "invalidUrl"
                            THEN calls \o <<"extractVideoId", "respond">>
                            ELSE Append(calls, "respond")
                /\ UNCHANGED videoId
    /\ UNCHANGED <<env, req, requestId, requestStartTime, now, metadata,
                   transcript, textToAnalyze, outcome>>
    /\ UNCHANGED <<scanVars, idVars>>

\* Lines 56-69 and 252-266: the oEmbed fetch answers; the transcript fetch
\* is issued.
MetadataReturns(o) ==
    /\ pc = "AwaitMetadata"
    /\ metadata' = getYoutubeMetadata(o)
    /\ outcome' = [outcome EXCEPT !.metadata = o]
    /\ calls' = calls \o <<"metadata.done", "transcript.fetch">>
    /\ pc' = "AwaitTranscript"
    /\ UNCHANGED <<env, req, requestId, requestStartTime, now, videoId,
                   transcript, textToAnalyze, responses>>
    /\ UNCHANGED <<scanVars, idVars>>

\* TranscriptReturns with one retry of a failed transcript fetch.
TranscriptReturnsRetry(o) ==
    /\ pc = "AwaitTranscript"
    /\ outcome' = [outcome EXCEPT !.transcript = o]
    /\ LET err == TranscriptError(o)
           fetches == Cardinality({i \in 1..Len(calls) : calls[i] = "transcript.fetch"})
       IN  IF err # Null /\ fetches < 2
           THEN /\ calls' = calls \o <<"transcript.failed", "transcript.fetch">>
                /\ UNCHANGED <<pc, transcript, textToAnalyze, responses>>
           ELSE IF err # Null
           THEN /\ Send(TranscriptFailureResponse(err, metadata, videoId, req.videoUrl))
                /\ calls' = calls \o <<"transcript.failed", "respond">>
                /\ UNCHANGED <<transcript, textToAnalyze>>
           ELSE /\ transcript' = BuildTranscript(o, metadata, videoId, req.videoUrl)
                /\ textToAnalyze' = TextToAnalyze(o.body.data.text)
                /\ calls' = calls \o <<"transcript.ok", "llm.create">>
                /\ pc' = "AwaitLLM"
                /\ UNCHANGED responses
    /\ UNCHANGED <<env, req, requestId, requestStartTime, now, videoId, metadata>>
    /\ UNCHANGED <<scanVars, idVars>>

\* Lines 266-317 and 373-401: the transcript fetch answers.  On failure the
\* catch at line 373 responds; on success the transcript is built and the
\* LLM call is issued.
TranscriptReturns(o) ==
    /\ pc = "AwaitTranscript"
    /\ outcome' = [outcome EXCEPT !.transcript = o]
    /\ LET err == TranscriptError(o)
       IN  IF err # Null
           THEN /\ Send(TranscriptFailureResponse(err, metadata, videoId, req.videoUrl))
                /\ calls' = calls \o <<"transcript.failed", "respond">>
                /\ UNCHANGED <<transcript, textToAnalyze>>
           ELSE /\ transcript' = BuildTranscript(o, metadata, videoId, req.videoUrl)
                /\ textToAnalyze' = TextToAnalyze(o.body.data.text)
                /\ calls' = calls \o <<"transcript.ok", "llm.create">>
                /\ pc' = "AwaitLLM"
                /\ UNCHANGED responses
    /\ UNCHANGED <<env, req, requestId, requestStartTime, now, videoId, metadata>>
    /\ UNCHANGED <<scanVars, idVars>>

\* LLMReturns with a catch at line 356 that logs and does not return: the
\* handler ends without a response.
LLMReturnsNoReturn(o) ==
    /\ pc = "AwaitLLM"
    /\ outcome' = [outcome EXCEPT !.llm = o]
    /\ LET err == GroqError(o)
       IN  IF err # Null
           THEN /\ pc' = "Returned"
                /\ calls' = Append(calls, "llm.failed")
                /\ UNCHANGED responses
           ELSE /\ Send(SuccessResponse(requestId, Elapsed, transcript,
                                        BuildAnalysis(AnalysisText(o), metadata, videoId)))
                /\ calls' = calls \o <<"llm.done", "respond">>
    /\ UNCHANGED <<env, req, requestId, requestStartTime, now, videoId, metadata,
                   transcript, textToAnalyze>>
    /\ UNCHANGED <<scanVars, idVars>>

\* Lines 317-371: the LLM call answers.  A throw is caught at line 356.
LLMReturns(o) ==
    /\ pc = "AwaitLLM"
    /\ outcome' = [outcome EXCEPT !.llm = o]
    /\ LET err == GroqError(o)
       IN  IF err # Null
           THEN /\ Send(PartialResponse(err, transcript, metadata, videoId))
                /\ calls' = calls \o <<"llm.failed", "respond">>
           ELSE /\ Send(SuccessResponse(requestId, Elapsed, transcript,
                                        BuildAnalysis(AnalysisText(o), metadata, videoId)))
                /\ calls' = calls \o <<"llm.done", "respond">>
    /\ UNCHANGED <<env, req, requestId, requestStartTime, now, videoId, metadata,
                   transcript, textToAnalyze>>
    /\ UNCHANGED <<scanVars, idVars>>

NoRequest == [body |-> "none", videoUrl |-> Undefined]

PostInit ==
    /\ env \in Environments
    /\ pc = "Idle"
    /\ req = NoRequest
    /\ requestId = ""
    /\ requestStartTime = 0
    /\ now = 0
    /\ videoId = Null
    /\ metadata = NullMetadata
    /\ transcript = NoResponse
    /\ textToAnalyze = ""
    /\ outcome = [metadata |-> Pending, transcript |-> Pending, llm |-> Pending]
    /\ calls = <<>>
    /\ responses = <<>>

\* The handler is not part of the run.
PostOff ==
    /\ env = [SUPADATA_API_KEY |-> Undefined, GROQ_API_KEY |-> Undefined,
              NODE_ENV |-> "production"]
    /\ pc = "Off"
    /\ req = NoRequest
    /\ requestId = ""
    /\ requestStartTime = 0
    /\ now = 0
    /\ videoId = Null
    /\ metadata = NullMetadata
    /\ transcript = NoResponse
    /\ textToAnalyze = ""
    /\ outcome = [metadata |-> Pending, transcript |-> Pending, llm |-> Pending]
    /\ calls = <<>>
    /\ responses = <<>>

ScanOff == lines = <<>> /\ takeaways = <<>> /\ topics = <<>>

IdOff == urlParts = [prefix |-> "", id |-> "", suffix |-> ""] /\ idResult = "#pending"

Init == PostInit /\ ScanOff /\ IdOff

Next ==
    \/ \E r \in Requests, rid \in RequestIds : ReceiveRequest(r, rid)
    \/ Tick
    \/ BodyParsed
    \/ \E o \in MetadataOutcomes : MetadataReturns(o)
    \/ \E o \in TranscriptOutcomes : TranscriptReturns(o)
    \/ \E o \in LLMOutcomes : LLMReturns(o)

Spec == Init /\ [][Next]_vars

\* The handler's continuations run once what they await has settled, and
\* every outbound call settles: each step that can be taken is taken.  The
\* clock and the arrival of a request are left to the environment.
LiveSpec ==
    /\ Spec
    /\ WF_vars(BodyParsed)
    /\ WF_vars(\E o \in MetadataOutcomes : MetadataReturns(o))
    /\ WF_vars(\E o \in TranscriptOutcomes : TranscriptReturns(o))
    /\ WF_vars(\E o \in LLMOutcomes : LLMReturns(o))

----------------------------------------------------------------------------
(* The scanners applied to texts built from sample lines *)

MaxHead == 2
MaxTail == 7

\* Lines an LLM answer is made of: section headers, list items of the three
\* recognized kinds, list items that are themselves headers, and lines the
\* scanners ignore.
HeadLines ==
    {"Key Takeaways:",
     "- The main point is speed",
     "Topics covered",
     "@ Main THEME: trust",
     "- Ship early",
     "12. Budget twice",
     "1.5x faster builds",
     "  - indented",
     ""}

\* A run of list items that follows the head.
TailLines ==
    <<"- one", "@ two", "3. three", "- four", "-five", "6. six", "- seven",
      "@ eight", "9. nine", "- ten">>

HeadSeqs == UNION {[1..n -> HeadLines] : n \in 0..MaxHead}

ScanInputs == {h \o SubSeq(TailLines, 1, k) : h \in HeadSeqs, k \in 0..MaxTail}

\* lines.join('\n')
RECURSIVE Join(_)
Join(ls) ==
    IF Len(ls) = 0 THEN ""
    ELSE IF Len(ls) = 1 THEN ls[1]
    ELSE ls[1] \o "\n" \o Join(Tail(ls))

Text == Join(lines)

RunExtractKeyTakeaways ==
    /\ lines # <<>>
    /\ takeaways = <<>>
    /\ takeaways' = extractKeyTakeaways(Text)
    /\ UNCHANGED <<lines, topics, postVars, idVars>>

RunExtractTopics ==
    /\ lines # <<>>
    /\ topics = <<>>
    /\ topics' = extractTopics(Text)
    /\ UNCHANGED <<lines, takeaways, postVars, idVars>>

ScanInit ==
    /\ lines \in ScanInputs \ {<<>>}
    /\ takeaways = <<>>
    /\ topics = <<>>

ScanSpecInit == PostOff /\ ScanInit /\ IdOff

ScanNext == RunExtractKeyTakeaways \/ RunExtractTopics

ScanSpec == ScanSpecInit /\ [][ScanNext]_vars

----------------------------------------------------------------------------
(* extractVideoId applied to URLs built from a shape, an ID segment and
   what follows the ID *)

RecognizedPrefixes ==
    {"https://www.youtube.com/watch?v=",
     "https://youtu.be/",
     "https://www.youtube.com/embed/",
     "https://www.youtube.com/v/",
     "https://www.youtube.com/user/rick#p/u/1/"}

UrlPrefixes ==
    RecognizedPrefixes
    \cup {"https://www.youtube.com/shorts/", "https://example.com/clip/", ""}

IdSegments ==
    {"dQw4w9WgXcQ", "vQw4w9WgXcQ", "-_w4w9WgXcv",
     "dQw4w9WgXc", "dQw4w9WgXcQ1", "vdQw4w9WgXcQ", ""}

UrlSuffixes == {"", "&t=42s", "?si=abc", "#t=1m"}

UrlOf(parts) == parts.prefix \o parts.id \o parts.suffix

RunExtractVideoId ==
    /\ idResult = "#pending"
    /\ idResult' = extractVideoId(UrlOf(urlParts))
    /\ UNCHANGED <<urlParts, postVars, scanVars>>

IdInit ==
    /\ urlParts \in [prefix : UrlPrefixes, id : IdSegments, suffix : UrlSuffixes]
    /\ idResult = "#pending"

IdSpecInit == PostOff /\ ScanOff /\ IdInit

IdNext == RunExtractVideoId

IdSpec == IdSpecInit /\ [][IdNext]_vars

----------------------------------------------------------------------------
(* Properties of the scanners (ScanSpec) *)

FirstN(seq, n) == SubSeq(seq, 1, IF n < Len(seq) THEN n ELSE Len(seq))

Stripped(seq) == [i \in 1..Len(seq) |-> StripMarker(seq[i])]

\* The lines after the first line that mentions a key takeaway or a main
\* point; none when no line does.
AfterTakeawayTrigger ==
    LET hits == {i \in 1..Len(lines) : IsTakeawayTrigger(lines[i])}
    IN  IF hits = {} THEN <<>>
        ELSE SubSeq(lines, 1 + (CHOOSE i \in hits : \A j \in hits : i <= j), Len(lines))

\* Among them, the bullet and numbered lines.
ListLinesAfterTrigger == SelectSeq(AfterTakeawayTrigger, IsListLine)

\* Among those, the ones that are not trigger lines themselves.
CollectibleAfterTrigger ==
    LET Keeps(l) == IsListLine(l) /\ ~ IsTakeawayTrigger(l)
    IN  SelectSeq(AfterTakeawayTrigger, Keeps)

\* C5 as stated: after the first trigger line every bullet or numbered line
\* is collected in order, marker stripped, up to 5; the result has 1 to 5
\* entries and is the placeholder exactly when nothing was collected.
C5_EveryListLineCollected ==
    takeaways # <<>> =>
        LET expected == Stripped(FirstN(ListLinesAfterTrigger, 5))
        IN  /\ Len(takeaways) \in 1..5
            /\ (takeaways = <<NoTakeaways>>) <=> (expected = <<>>)
            /\ expected # <<>> => takeaways = expected

\* C5 amended: after the first trigger line every bullet or numbered line
\* that does not itself contain a trigger phrase is collected in order, its
\* leading run of '-', bullet, digit and '.' characters and the white space
\* after it removed, up to 5; the result has 1 to 5 entries and is the
\* placeholder exactly when nothing was collected.
C5_ListLinesCollected ==
    takeaways # <<>> =>
        LET expected == Stripped(FirstN(CollectibleAfterTrigger, 5))
        IN  /\ Len(takeaways) \in 1..5
            /\ (takeaways = <<NoTakeaways>>) <=> (expected = <<>>)
            /\ expected # <<>> => takeaways = expected

\* A trigger line followed by 7 list lines gave exactly the first 5.
C5_Witness ==
    /\ lines = <<"Key Takeaways:">> \o SubSeq(TailLines, 1, 7)
    /\ takeaways = <<"one", "two", "three", "four", "five">>

NoTopicWord(l) ==
    \A w \in {"topic", "theme", "subject"} : ~ includes(toLowerCase(l), w)

\* C6: a text without a line containing "topic", "theme" or "subject" gives
\* exactly one topic, titled "General Content", however many list lines it
\* has; any text gives 1 to 5 topics, and every collected topic is described
\* as "Discussion about " followed by its title.
C6_TopicsShape ==
    topics # <<>> =>
        /\ (\A i \in 1..Len(lines) : NoTopicWord(lines[i])) =>
               Len(topics) = 1 /\ topics[1].title = "General Content"
        /\ Len(topics) \in 1..5
        /\ \A i \in 1..Len(topics) :
               \/ topics[i] = PlaceholderTopic
               \/ topics[i].description = "Discussion about " \o topics[i].title

\* A text with no trigger line and at least 5 list lines gave the placeholder.
C6_Witness ==
    /\ topics # <<>>
    /\ \A i \in 1..Len(lines) : NoTopicWord(lines[i])
    /\ Len(SelectSeq(lines, IsListLine)) >= 5
    /\ topics[1].title = "General Content"

----------------------------------------------------------------------------
(* Properties of extractVideoId (IdSpec) *)

\* C7 as stated: a URL of a recognized shape whose ID segment has exactly 11
\* characters gives that segment; every other input gives null.
C7_ExactIdOrNull ==
    idResult # "#pending" =>
        IF urlParts.prefix \in RecognizedPrefixes /\ Len(urlParts.id) = 11
        THEN idResult = urlParts.id
        ELSE idResult = Null

----------------------------------------------------------------------------
(* Properties of POST (Spec, LiveSpec) *)

Done == pc = "ResponseSent"

Resp == responses[1]

CarriesVideoUrl == req.body = "object" /\ ~ Falsy(req.videoUrl)

OutboundCalls == {"metadata.fetch", "transcript.fetch", "llm.create"}

NoOutboundCall == \A i \in 1..Len(calls) : calls[i] \notin OutboundCalls

\* The provider answered with a transcript.
TranscriptSucceeded ==
    /\ outcome.transcript.kind = "body"
    /\ "success" \in DOMAIN outcome.transcript.body
    /\ outcome.transcript.body.success
    /\ "data" \in DOMAIN outcome.transcript.body
    /\ "text" \in DOMAIN outcome.transcript.body.data

TranscriptFailed == outcome.transcript # Pending /\ ~ TranscriptSucceeded

\* The LLM call answered with a completion that has a choices array.
LLMSucceeded ==
    outcome.llm.kind = "completion" /\ "choices" \in DOMAIN outcome.llm

LLMFailed == outcome.llm # Pending /\ ~ LLMSucceeded

ConfigError500(phrase) ==
    /\ Resp.status = 500
    /\ Resp.body.success = FALSE
    /\ includes(Resp.body.error, phrase)
    /\ "troubleshooting" \in DOMAIN Resp.body
    /\ Resp.body.troubleshooting # ""
    /\ NoOutboundCall

C2_TranscriptFailurePayload ==
    (Done /\ TranscriptFailed) =>
        LET tr == Resp.body.data.transcript
            o  == outcome.transcript
        IN  /\ Resp.body.success = FALSE
            /\ tr.content = "Could not fetch transcript for video " \o videoId
            /\ Len(tr.segments) = 0
            /\ "error" \in DOMAIN tr
            /\ tr.error.code = "TRANSCRIPT_FETCH_ERROR"
            /\ tr.error.message # ""
            /\ o.kind = "status" =>
                   tr.error.message = "Supadata API returned status: " \o ToString(o.status)
            /\ (o.kind = "body" /\ "message" \in DOMAIN o.body) =>
                   tr.error.message = o.body.message
            /\ Resp.body.data.analysis = generateFallbackAnalysis(tr.videoInfo.title)

\* The transcript provider answered HTTP 500 and the request was answered.
C2_Witness ==
    /\ Done
    /\ outcome.transcript = [kind |-> "status", status |-> 500]
    /\ Resp.body.success = FALSE

\* C3: when the transcript was retrieved and the LLM call throws, the
\* response has success=true and partial=true, the transcript built from the
\* provider's text and segments without an error descriptor, and the static
\* one-component fallback analysis made from the video title.
C3_PartialPayload ==
    (Done /\ TranscriptSucceeded /\ outcome.llm.kind = "throws") =>
        LET tr   == Resp.body.data.transcript
            data == outcome.transcript.body.data
            an   == Resp.body.data.analysis
        IN  /\ Resp.status = 200
            /\ Resp.body.success = TRUE
            /\ "partial" \in DOMAIN Resp.body
            /\ Resp.body.partial = TRUE
            /\ tr = transcript
            /\ tr.content = data.text
            /\ tr.segments = (IF "segments" \in DOMAIN data THEN data.segments ELSE <<>>)
            /\ "error" \notin DOMAIN tr
            /\ an = generateFallbackAnalysis(tr.videoInfo.title)
            /\ Len(an.framework.components) = 1

\* A transcript with segments was retrieved, the LLM call threw, and the
\* request was answered.
C3_Witness ==
    /\ Done
    /\ TranscriptSucceeded
    /\ outcome.llm.kind = "throws"
    /\ Len(Resp.body.data.transcript.segments) = 2

\* C4 as stated: the responses to a transcript failure and to a
\* summarization failure carry the request's requestId and a processingTime.
C4_DegradedCarryIdAndTime ==
    (Done /\ (TranscriptFailed \/ (TranscriptSucceeded /\ LLMFailed))) =>
        /\ "requestId" \in DOMAIN Resp.body
        /\ Resp.body.requestId = requestId
        /\ "processingTime" \in DOMAIN Resp.body

Count(e) == Cardinality({i \in 1..Len(calls) : calls[i] = e})

Happened(e) == Count(e) > 0

\* Where e first happened.
IndexOf(e) ==
    CHOOSE i \in 1..Len(calls) :
        calls[i] = e /\ \A j \in 1..(i - 1) : calls[j] # e

\* b happened only after a did.
Precedes(a, b) == Happened(b) => Happened(a) /\ IndexOf(a) < IndexOf(b)

\* C8: within a request the stages come in the order ID extraction,
\* metadata lookup, transcript fetch, LLM call, response; each outbound call
\* is issued at most once; the transcript fetch only after the metadata
\* lookup has completed; the LLM call only after the transcript fetch
\* succeeded, and not at all when it failed.
C8_StageOrder ==
    /\ \A e \in OutboundCalls \cup {"respond"} : Count(e) <= 1
    /\ Precedes("extractVideoId", "metadata.fetch")
    /\ Precedes("metadata.fetch", "metadata.done")
    /\ Precedes("metadata.done", "transcript.fetch")
    /\ Precedes("transcript.fetch", "transcript.ok")
    /\ Precedes("transcript.fetch", "transcript.failed")
    /\ Precedes("transcript.ok", "llm.create")
    /\ Happened("transcript.failed") => ~ Happened("llm.create")
    /\ Happened("respond") => calls[Len(calls)] = "respond"

\* A request went through all three outbound calls and was answered.
C8_Witness ==
    /\ Done
    /\ Happened("llm.create")
    /\ outcome.metadata.kind = "status"

\* C9: the response tier depends on the transcript and LLM outcomes alone,
\* whatever the metadata lookup did: status 200, success exactly when the
\* transcript was retrieved, partial exactly when the LLM call then failed.
\* After a failed lookup the video info has the defaults.
C9_MetadataAbsorbed ==
    (Done /\ outcome.transcript # Pending) =>
        LET info == Resp.body.data.transcript.videoInfo
        IN  /\ Resp.status = 200
            /\ Resp.body.success = TranscriptSucceeded
            /\ ("partial" \in DOMAIN Resp.body) = (TranscriptSucceeded /\ LLMFailed)
            /\ outcome.metadata.kind # "ok" =>
                   /\ info.title = "Video " \o videoId
                   /\ info.author = "Unknown"
                   /\ info.thumbnailUrl =
                          "https://img.youtube.com/vi/" \o videoId \o "/hqdefault.jpg"

\* The metadata lookup answered 404 and the request got the full response.
C9_Witness ==
    /\ Done
    /\ outcome.metadata.kind = "status"
    /\ TranscriptSucceeded
    /\ LLMSucceeded
    /\ Resp.body.success = TRUE

\* C10: every request that reached the handler is answered, and by exactly
\* one response, whatever failed on the way.
C10_ExactlyOneResponse ==
    /\ [](Len(responses) <= 1)
    /\ [](Done => Len(responses) = 1)
    /\ (pc = "AwaitBody") ~> (Done /\ Len(responses) = 1)

\* A request was answered after the metadata lookup and the LLM call failed.
C10_Witness ==
    /\ Done
    /\ Len(responses) = 1
    /\ outcome.metadata.kind = "networkError"
    /\ LLMFailed

=============================================================================
